---- MODULE Spec2Model ----
(***************************************************************************)
(* Model of Analysis/ImageProcessing.py: the intensity-profile metrology   *)
(* pipeline for SEM images (scale resolution, row / mean profiles, edge    *)
(* detection on the smoothed derivative, translation and line widths).     *)
(*                                                                         *)
(* Every function of the module is a pure function of its arguments, so    *)
(* the state is the argument tuple of a call (args), which function has    *)
(* been called last (pc) and what it returned or raised (result).  Init    *)
(* draws the arguments, one action per function applies it.                *)
(*                                                                         *)
(* Numbers.  Python floats are modelled as exact rationals <<num, den>>;   *)
(* NaN is the pair <<0, 0>>.  Samples of a derivative are integers counted  *)
(* in units of the default threshold 0.1.  The outputs of the external     *)
(* collaborators (easyocr, cv2.HoughLinesP, scipy.signal.filtfilt) are     *)
(* inputs of the model; what the code does with them is modelled exactly.  *)
(***************************************************************************)
EXTENDS Integers, Sequences, FiniteSets, TLC

VARIABLES
    args,      \* the arguments of the call (collaborator outputs included)
    pc,        \* "idle", or the name of the function that was called last
    result     \* what that call returned or raised

vars == <<args, pc, result>>

(***************************************************************************)
(* Bounds of the model.                                                    *)
(***************************************************************************)
MaxStrLen == 2     \* longest text the OCR reader returns
MaxX == 9          \* largest x coordinate of a detected scale-bar end point
MaxRows == 2       \* most rows of an image
MaxWidth == 24     \* most columns of an image given to get_line_width_data
MaxEdges == 2      \* most edges of one kind given to get_line_width_data
MaxProfileLen == 4 \* samples of a profile given to get_intensity_profile_dy
MaxEdgeDyLen == 5  \* samples of a derivative given to the edge detector
MaxDyLen == 14     \* samples of a smoothed derivative given to get_translation
MaxSide == 3       \* most rows and most columns of an image given to crop_image

(***************************************************************************)
(* Exact rationals standing for Python floats.                             *)
(***************************************************************************)
Rat(n, d) == <<n, d>>

\* 0/0 as numpy divides it: not a number, equal to nothing.
NaN == <<0, 0>>

IsNaN(a) == a[2] = 0

RatEq(a, b) == ~IsNaN(a) /\ ~IsNaN(b) /\ a[1] * b[2] = b[1] * a[2]

RatSub(a, b) == <<a[1] * b[2] - b[1] * a[2], a[2] * b[2]>>

RatAdd(a, b) == <<a[1] * b[2] + b[1] * a[2], a[2] * b[2]>>

RatPositive(a) == a[1] * a[2] > 0

(***************************************************************************)
(* Outcomes of a call.                                                     *)
(***************************************************************************)
Returned(v) == [status |-> "ok", value |-> v]

Raised(e) == [status |-> e]

NoResult == [status |-> "none"]

Failed(r) == r.status \notin {"ok", "none"}

\* What in-place arithmetic in normalize_1D_array (array -= min(array)) would
\* leave in the caller's image, the row being a view of it.
InputsNormalizedInPlace(a) ==
    IF a.family \in {"row_profile", "mean_profile"}
    THEN [a EXCEPT !.image =
             [r \in DOMAIN @ |->
                 LET least == CHOOSE v \in {@[r][c] : c \in DOMAIN @[r]} :
                                  \A c \in DOMAIN @[r] : v <= @[r][c]
                 IN  [c \in DOMAIN @[r] |-> @[r][c] - least]]]
    ELSE a

\* The caller's arguments after a call.  No function of the module assigns
\* to an element of an argument or applies an in-place operator to one: the
\* views image[row, :], image[:, a:b] and image[a:b, c:d] are only read, and
\* array arithmetic, np.diff, np.mean, find_peaks and filtfilt build new
\* arrays.  The module has no global that a call writes.
InputsAfterCall(a) == a

(***************************************************************************)
(* ScaleResolver: get_str_from_img, get_scale_bar_size, get_scale.         *)
(***************************************************************************)
Chars == {"0", "1", "-", " ", "u"}

Digits == {"0", "1"}

DigitValue(c) == IF c = "1" THEN 1 ELSE 0

Strings == UNION {[1..n -> Chars] : n \in 0..MaxStrLen}

\* str.strip() as int() applies it: leading and trailing blanks are dropped.
RECURSIVE StripLeft(_)
StripLeft(s) ==
    IF s # <<>> /\ Head(s) = " " THEN StripLeft(Tail(s)) ELSE s

RECURSIVE StripRight(_)
StripRight(s) ==
    IF s # <<>> /\ s[Len(s)] = " " THEN StripRight(SubSeq(s, 1, Len(s) - 1)) ELSE s

Strip(s) == StripRight(StripLeft(s))

RECURSIVE DecimalValue(_)
DecimalValue(s) ==
    IF s = <<>> THEN 0
    ELSE 10 * DecimalValue(SubSeq(s, 1, Len(s) - 1)) + DigitValue(s[Len(s)])

AllDigits(s) == s # <<>> /\ \A i \in 1..Len(s) : s[i] \in Digits

\* A lenient parser: any text that holds a digit is taken for a number.
IntParsesLenient(s) == \E i \in 1..Len(s) : s[i] \in Digits

\* int(scale_str): blanks stripped, an optional sign, then decimal digits only.
IntParses(s) ==
    LET t == Strip(s)
    IN  IF t # <<>> /\ Head(t) = "-" THEN AllDigits(Tail(t)) ELSE AllDigits(t)

IntValue(s) ==
    LET t == Strip(s)
    IN  IF ~IntParses(s) THEN 0
        ELSE IF Head(t) = "-" THEN 0 - DecimalValue(Tail(t))
        ELSE DecimalValue(t)

\* reader.readtext(image, detail = 0): the list of texts found, maybe empty.
OcrTexts == {<<>>} \cup {<<s>> : s \in Strings}

\* cv2.HoughLinesP: None, or lines whose first one runs from x1 to x2.
NoLines == <<>>

HoughLines == {NoLines} \cup {<<x1, x2>> : x1 \in 0..MaxX, x2 \in 0..MaxX}

TickCorrection == 6

\* The detected span taken as it is, the end ticks counted in.
get_scale_bar_size_with_ticks(lines) == lines[2] - lines[1]

get_scale_bar_size(lines) == (lines[2] - lines[1]) - TickCorrection

get_scale(ocr_text, lines, return_all, return_pm) ==
    IF ocr_text = <<>> THEN Raised("IndexError") @@ [ocr_reads |-> 1]
    ELSE IF ~IntParses(ocr_text[1]) THEN Raised("ValueError") @@ [ocr_reads |-> 1]
    ELSE IF lines = NoLines THEN Raised("TypeError") @@ [ocr_reads |-> 1]
    ELSE LET scale_str == ocr_text[1]
             scale_int == IntValue(scale_str)
             size      == get_scale_bar_size(lines)
         IN  IF size = 0 \/ size - 1 = 0
             THEN Raised("ZeroDivisionError") @@ [ocr_reads |-> 1]
             ELSE LET scale == Rat(scale_int, size)
                      pm    == RatSub(Rat(scale_int, size - 1), scale)
                  IN  (IF return_all
                       THEN Returned([scale_str |-> scale_str,
                                      scale_int |-> scale_int,
                                      scale |-> scale])
                       ELSE IF return_pm
                       THEN Returned([scale |-> scale, pm |-> pm])
                       ELSE Returned([scale |-> scale]))
                      @@ [ocr_reads |-> 1]

InitScale ==
    /\ args \in [family : {"scale"}, ocr_text : OcrTexts, lines : HoughLines,
                 return_all : BOOLEAN, return_pm : BOOLEAN]
    /\ pc = "idle"
    /\ result = NoResult

Call_get_scale ==
    /\ args.family = "scale"
    /\ pc' = "get_scale"
    /\ result' = get_scale(args.ocr_text, args.lines, args.return_all, args.return_pm)
    /\ args' = InputsAfterCall(args)

NextScale == Call_get_scale

SpecScale == InitScale /\ [][NextScale]_vars

(***************************************************************************)
(* ProfileExtractor: normalize_1D_array, get_intensity_profile,            *)
(* get_mean_intensity_profile.  An image is a sequence of rows, a row a    *)
(* sequence of gray levels.                                                *)
(***************************************************************************)
GrayLevels == {0, 1, 2}

ColumnCounts == 1..3

Images ==
    UNION {[1..r -> [1..c -> GrayLevels]] : r \in 1..MaxRows, c \in ColumnCounts}

RECURSIVE SeqMin(_)
SeqMin(a) ==
    IF Len(a) = 1 THEN a[1]
    ELSE LET m == SeqMin(Tail(a)) IN IF a[1] < m THEN a[1] ELSE m

RECURSIVE SeqMax(_)
SeqMax(a) ==
    IF Len(a) = 1 THEN a[1]
    ELSE LET m == SeqMax(Tail(a)) IN IF a[1] > m THEN a[1] ELSE m

\* numpy true_divide of integers: x / 0 raises nothing; 0 / 0 is nan.
TrueDivide(n, d) == IF d = 0 /\ n = 0 THEN NaN ELSE Rat(n, d)

\* min() and max() of an empty array raise ValueError.
normalize_1D_array(array) ==
    IF array = <<>> THEN Raised("ValueError")
    ELSE LET lo == SeqMin(array)
             hi == SeqMax(array)
         IN  Returned([i \in 1..Len(array) |-> TrueDivide(array[i] - lo, hi - lo)])

\* The profile negated instead of complemented.
OneMinusNegated(x) == Rat(0 - x[1], x[2])

\* 1 - x on floats; 1 - nan is nan.
OneMinus(x) == Rat(x[2] - x[1], x[2])

\* image[row, :]: a negative row counts from the end, a row outside the
\* image raises IndexError.  The position of the row in the image, 0 if none.
RowPosition(image, row) ==
    IF 0 <= row /\ row < Len(image) THEN row + 1
    ELSE IF row < 0 /\ 0 - row <= Len(image) THEN Len(image) + row + 1
    ELSE 0

get_intensity_profile(image, row, invert_profile) ==
    IF RowPosition(image, row) = 0 THEN Raised("IndexError")
    ELSE LET normalized == normalize_1D_array(image[RowPosition(image, row)])
         IN  IF normalized.status # "ok" THEN normalized
             ELSE IF invert_profile
             THEN Returned([i \in 1..Len(normalized.value) |->
                               OneMinus(normalized.value[i])])
             ELSE normalized

\* The elementwise sum of the row profiles of rows [row, ending_row), or the
\* first failure among them.
RECURSIVE SumRowProfiles(_, _, _)
SumRowProfiles(image, row, ending_row) ==
    LET first == get_intensity_profile(image, row, TRUE)
    IN  IF first.status # "ok" \/ row + 1 >= ending_row THEN first
        ELSE LET rest == SumRowProfiles(image, row + 1, ending_row)
             IN  IF rest.status # "ok" THEN rest
                 ELSE Returned([i \in 1..Len(first.value) |->
                                   RatAdd(first.value[i], rest.value[i])])

\* np.empty(n) with n < 0 raises ValueError; np.mean of an empty object
\* array is the scalar nan (and a RuntimeWarning), of n arrays their sum / n.
get_mean_intensity_profile(image, starting_row, ending_row) ==
    IF ending_row - starting_row < 0 THEN Raised("ValueError")
    ELSE IF ending_row - starting_row = 0 THEN Returned(NaN)
    ELSE LET total == SumRowProfiles(image, starting_row, ending_row)
         IN  IF total.status # "ok" THEN total
             ELSE Returned([i \in 1..Len(total.value) |->
                      IF IsNaN(total.value[i]) THEN NaN
                      ELSE Rat(total.value[i][1],
                               total.value[i][2] * (ending_row - starting_row))])

InitRowProfile ==
    /\ args \in [family : {"row_profile"}, image : Images,
                 row : (0 - 1)..MaxRows, invert_profile : BOOLEAN]
    /\ pc = "idle"
    /\ result = NoResult

InitMeanProfile ==
    /\ args \in [family : {"mean_profile"}, image : Images,
                 starting_row : 0..MaxRows, ending_row : 0..MaxRows]
    /\ pc = "idle"
    /\ result = NoResult

InitProfile == InitRowProfile \/ InitMeanProfile

Call_get_intensity_profile ==
    /\ args.family = "row_profile"
    /\ pc' = "get_intensity_profile"
    /\ result' = get_intensity_profile(args.image, args.row, args.invert_profile)
    /\ args' = InputsAfterCall(args)

Call_get_mean_intensity_profile ==
    /\ args.family = "mean_profile"
    /\ pc' = "get_mean_intensity_profile"
    /\ result' = get_mean_intensity_profile(args.image, args.starting_row,
                                            args.ending_row)
    /\ args' = InputsAfterCall(args)

NextProfile == Call_get_intensity_profile \/ Call_get_mean_intensity_profile

SpecProfile == InitProfile /\ [][NextProfile]_vars

(***************************************************************************)
(* Smoothing filter and EdgeDetector: filter_data,                         *)
(* get_leading_edge_positions, get_trailing_edge_positions.  Positions are *)
(* the 0-based indices numpy uses; X(x, i) is x[i] of the code.            *)
(***************************************************************************)
X(x, i) == x[i + 1]

Negated(x) == [i \in 1..Len(x) |-> 0 - x[i]]

\* scipy.signal.filtfilt pads 3 * max(len(a), len(b)) samples on each side
\* and raises ValueError unless the input is longer than that; a Butterworth
\* filter of the given order has order + 1 coefficients.
FiltfiltPadLen(filter_order) == 3 * (filter_order + 1)

DefaultFilterOrder == 3

\* filter_data: the filtered signal is an input of the model (filtered),
\* as long as the unfiltered one (of length n).
filter_data(n, filtered, filter_order) ==
    IF n <= FiltfiltPadLen(filter_order) THEN Raised("ValueError")
    ELSE Returned(filtered)

\* scipy's _local_maxima_1d: the index one past the plateau that starts at i.
RECURSIVE PlateauEnd(_, _, _)
PlateauEnd(x, i, i_ahead) ==
    IF i_ahead < Len(x) - 1 /\ X(x, i_ahead) = X(x, i)
    THEN PlateauEnd(x, i, i_ahead + 1)
    ELSE i_ahead

\* The left edge of a plateau taken for its position.
PlateauLeftEdge(left_edge, right_edge) == left_edge

\* scipy's _local_maxima_1d: midpoints = (left_edges + right_edges) // 2
PlateauMidpoint(left_edge, right_edge) == (left_edge + right_edge) \div 2

\* scipy's _local_maxima_1d from sample i on: the midpoint of every plateau
\* that is higher than the samples on both of its sides.
RECURSIVE LocalMaximaFrom(_, _)
LocalMaximaFrom(x, i) ==
    IF i >= Len(x) - 1 THEN <<>>
    ELSE IF X(x, i - 1) < X(x, i)
    THEN LET i_ahead == PlateauEnd(x, i, i + 1)
         IN  IF X(x, i_ahead) < X(x, i)
             THEN <<PlateauMidpoint(i, i_ahead - 1)>> \o LocalMaximaFrom(x, i_ahead + 1)
             ELSE LocalMaximaFrom(x, i + 1)
    ELSE LocalMaximaFrom(x, i + 1)

\* The height used as a strict bound.
find_peaks_strictly_above(x, treshold) ==
    SelectSeq(LocalMaximaFrom(x, 1), LAMBDA p : treshold < X(x, p))

\* The height used as an upper bound.
find_peaks_below(x, treshold) ==
    SelectSeq(LocalMaximaFrom(x, 1), LAMBDA p : X(x, p) <= treshold)

\* scipy.signal.find_peaks(x, height=treshold): the local maxima whose
\* height is at least the threshold.
find_peaks(x, treshold) ==
    SelectSeq(LocalMaximaFrom(x, 1), LAMBDA p : treshold <= X(x, p))

\* The default treshold 0.1, the unit the samples are counted in.
DefaultTreshold == 1

get_leading_edge_positions(intensity_profile_derivative, treshold) ==
    find_peaks(intensity_profile_derivative, treshold)

get_trailing_edge_positions(intensity_profile_derivative, treshold) ==
    find_peaks(Negated(intensity_profile_derivative), treshold)

\* Derivatives given to the edge detector, and thresholds, in units of 0.1.
Samples == (0 - 2)..2

Derivatives == UNION {[1..n -> Samples] : n \in 0..MaxEdgeDyLen}

Thresholds == 0..2

InitEdges ==
    /\ args \in [family : {"edges"}, intensity_profile_derivative : Derivatives,
                 treshold : Thresholds]
    /\ pc = "idle"
    /\ result = NoResult

Call_get_leading_edge_positions ==
    /\ args.family = "edges"
    /\ pc' = "get_leading_edge_positions"
    /\ result' = Returned(get_leading_edge_positions(
                              args.intensity_profile_derivative, args.treshold))
    /\ args' = InputsAfterCall(args)

Call_get_trailing_edge_positions ==
    /\ args.family = "edges"
    /\ pc' = "get_trailing_edge_positions"
    /\ result' = Returned(get_trailing_edge_positions(
                              args.intensity_profile_derivative, args.treshold))
    /\ args' = InputsAfterCall(args)

NextEdges == Call_get_leading_edge_positions \/ Call_get_trailing_edge_positions

SpecEdges == InitEdges /\ [][NextEdges]_vars

(***************************************************************************)
(* MetricsEngine: get_translation.                                         *)
(***************************************************************************)
Scales == {<<1, 2>>, <<2, 3>>}

\* Smoothed derivatives of MaxDyLen samples: every sample is one threshold
\* above or below zero, and from index cut on the low samples are zero
\* (troughs too shallow to count as trailing edges).
Cuts == {0, MaxDyLen \div 2, MaxDyLen}

DyInputs ==
    {[i \in 1..MaxDyLen |-> IF b[i] = 0 - 1 /\ i > cut THEN 0 ELSE b[i]] :
        b \in [1..MaxDyLen -> {0 - 1, 1}], cut \in Cuts}

\* np.std(T) of the list T of values nums[i] / den, given by its square
\* (the variance); nan for an empty list.
StdSquared(nums, den) ==
    LET m == Len(nums)
        RECURSIVE Sum(_, _)
        Sum(k, square) ==
            IF k = 0 THEN 0
            ELSE Sum(k - 1, square) + (IF square THEN nums[k] * nums[k] ELSE nums[k])
    IN  IF m = 0 THEN NaN
        ELSE Rat(m * Sum(m, TRUE) - Sum(m, FALSE) * Sum(m, FALSE), m * m * den * den)

\* The index arithmetic "simplified" to consecutive edges.
GapDifferenceConsecutive(le, te, i) ==
    (X(le, i + 2) - X(te, i + 1)) - (X(le, i + 1) - X(te, i))

\* Line 242 for one i: the difference of two consecutive gap widths in
\* pixels, before it is multiplied by scale and halved.
GapDifference(le, te, i) ==
    (X(le, (i + 1) * 2) - X(te, i * 2 + 1)) - (X(le, i * 2 + 1) - X(te, i * 2))

\* The largest indices line 242 reads for one i.
TranslationInRange(le, te, i) ==
    /\ (i + 1) * 2 < Len(le)
    /\ i * 2 + 1 < Len(te)

\* The count without the "- 1" of line 239.
TranslationCountHalf(le) == Len(le) \div 2

\* int(len(le) / 2) - 1
TranslationCount(le) == (Len(le) \div 2) - 1

get_translation(profile_len, dy_filtered, scale) ==
    LET derivative_len == IF profile_len = 0 THEN 0 ELSE profile_len - 1
        dy == filter_data(derivative_len, dy_filtered, DefaultFilterOrder)
    IN  IF dy.status # "ok" THEN dy
        ELSE LET le == get_leading_edge_positions(dy.value, DefaultTreshold)
                 te == get_trailing_edge_positions(dy.value, DefaultTreshold)
                 n  == TranslationCount(le)
             IN  IF \E i \in 0..(n - 1) : ~TranslationInRange(le, te, i)
                 THEN Raised("IndexError")
                 ELSE LET nums == [k \in 1..(IF n > 0 THEN n ELSE 0) |->
                                      GapDifference(le, te, k - 1) * scale[1]]
                          den  == scale[2] * 2
                      IN  Returned([T   |-> [k \in 1..Len(nums) |-> Rat(nums[k], den)],
                                    std |-> StdSquared(nums, den)])

InitTranslation ==
    /\ \/ args \in [family : {"translation"}, dy : DyInputs,
                    profile_len : {MaxDyLen + 1}, scale : Scales]
       \/ args \in [family : {"translation"}, dy : {<<>>},
                    profile_len : 0..(FiltfiltPadLen(DefaultFilterOrder) + 1),
                    scale : Scales]
    /\ pc = "idle"
    /\ result = NoResult

Call_get_translation ==
    /\ args.family = "translation"
    /\ pc' = "get_translation"
    /\ result' = get_translation(args.profile_len, args.dy, args.scale)
    /\ args' = InputsAfterCall(args)

NextTranslation == Call_get_translation

SpecTranslation == InitTranslation /\ [][NextTranslation]_vars

(***************************************************************************)
(* MetricsEngine: get_line_width_data.  Of the image only its shape is     *)
(* kept (rows, columns); the mean profile has one sample per column.  The  *)
(* uncertainty of a line is given by what it was computed on: the columns  *)
(* [start, stop) of the image and of the mean profile, and the rows (an     *)
(* image has at least one row).                                            *)
(***************************************************************************)
Margin == 10

\* numpy's bounds of the slice [k:...] or [...:k] of an axis of n samples:
\* a negative index counts from the end, and the result is clipped to 0..n.
SliceIndex(k, n) ==
    IF k < 0 THEN (IF k + n < 0 THEN 0 ELSE k + n)
    ELSE IF k > n THEN n ELSE k

\* image[:, peak - margin:valley + margin]
PaddedWindow(peak, valley, columns) ==
    [start |-> SliceIndex(peak - Margin, columns),
     stop  |-> SliceIndex(valley + Margin, columns)]

WindowLen(w) == IF w.stop > w.start THEN w.stop - w.start ELSE 0

\* Lines 297-303 for one line: every row of the slice is normalised (min()
\* of an empty row raises ValueError) and filtered with order 1 (ValueError
\* for a row no longer than the padding).
LineStd(peak, valley, rows, columns) ==
    LET w == PaddedWindow(peak, valley, columns)
    IN  IF WindowLen(w) = 0 THEN Raised("ValueError")
        ELSE IF filter_data(WindowLen(w), <<>>, 1).status # "ok"
        THEN Raised("ValueError")
        ELSE Returned([start |-> w.start, stop |-> w.stop, rows |-> rows])

\* An off-by-one width: both edge pixels counted in.
LineWidthPixelsInclusive(peak, valley) == valley - peak + 1

\* valley - peak of line 288
LineWidthPixels(peak, valley) == valley - peak

\* zip(leading_edges, trailing_edges): as many pairs as the shorter has.
ZipLen(leading_edges, trailing_edges) ==
    IF Len(leading_edges) < Len(trailing_edges)
    THEN Len(leading_edges) ELSE Len(trailing_edges)

get_line_width_data(rows, columns, leading_edges, trailing_edges, scale) ==
    LET n == ZipLen(leading_edges, trailing_edges)
        std(k) == LineStd(leading_edges[k], trailing_edges[k], rows, columns)
    IN  IF \E k \in 1..n : std(k).status # "ok"
        THEN Raised("ValueError")
        ELSE Returned(
               [line_widths |->
                    [k \in 1..n |->
                        Rat(LineWidthPixels(leading_edges[k], trailing_edges[k])
                                * scale[1], scale[2])],
                line_stds |-> [k \in 1..n |-> std(k).value]])

\* Image widths, and the columns edges are drawn from (every third one).
ImageWidths == (MaxWidth - 1)..MaxWidth

EdgeColumns(columns) == {c \in 1..(columns - 3) : c % 3 = 1}

\* Edge positions as find_peaks returns them: strictly ascending.
EdgeLists(columns) ==
    {e \in UNION {[1..n -> EdgeColumns(columns)] : n \in 0..MaxEdges} :
        \A k \in 1..(Len(e) - 1) : e[k] < e[k + 1]}

InitWidths ==
    /\ \E columns \in ImageWidths :
          args \in [family : {"line_widths"}, rows : 1..MaxRows, columns : {columns},
                    leading_edges : EdgeLists(columns),
                    trailing_edges : EdgeLists(columns), scale : Scales]
    /\ pc = "idle"
    /\ result = NoResult

Call_get_line_width_data ==
    /\ args.family = "line_widths"
    /\ pc' = "get_line_width_data"
    /\ result' = get_line_width_data(args.rows, args.columns, args.leading_edges,
                                     args.trailing_edges, args.scale)
    /\ args' = InputsAfterCall(args)

NextWidths == Call_get_line_width_data

SpecWidths == InitWidths /\ [][NextWidths]_vars

(***************************************************************************)
(* ProfileExtractor: get_intensity_profile_dy.                             *)
(***************************************************************************)
\* Values of a normalised profile.
ProfileValues == {Rat(0, 1), Rat(1, 3), Rat(1, 2), Rat(1, 1)}

Profiles == UNION {[1..n -> ProfileValues] : n \in 0..MaxProfileLen}

\* The default scale_factor 5, and another one.
ScaleFactors == {5, 2}

\* intensity_profile * scale_factor, for one sample
Scaled(x, scale_factor) == Rat(x[1] * scale_factor, x[2])

\* The difference of the samples, the scale factor left out.
get_intensity_profile_dy_unscaled(intensity_profile, scale_factor) ==
    [i \in 1..(IF Len(intensity_profile) = 0 THEN 0 ELSE Len(intensity_profile) - 1) |->
        RatSub(intensity_profile[i + 1], intensity_profile[i])]

\* np.diff(intensity_profile * scale_factor): out[i] = a[i + 1] - a[i], one
\* sample fewer than a (none for an empty a).
get_intensity_profile_dy(intensity_profile, scale_factor) ==
    [i \in 1..(IF Len(intensity_profile) = 0 THEN 0 ELSE Len(intensity_profile) - 1) |->
        RatSub(Scaled(intensity_profile[i + 1], scale_factor),
               Scaled(intensity_profile[i], scale_factor))]

InitDerivative ==
    /\ args \in [family : {"derivative"}, intensity_profile : Profiles,
                 scale_factor : ScaleFactors]
    /\ pc = "idle"
    /\ result = NoResult

Call_get_intensity_profile_dy ==
    /\ args.family = "derivative"
    /\ pc' = "get_intensity_profile_dy"
    /\ result' = Returned(get_intensity_profile_dy(args.intensity_profile,
                                                   args.scale_factor))
    /\ args' = InputsAfterCall(args)

NextDerivative == Call_get_intensity_profile_dy

SpecDerivative == InitDerivative /\ [][NextDerivative]_vars

(***************************************************************************)
(* crop_image.  An image is a sequence of rows, each a sequence of pixels; *)
(* every pixel is labelled with its own (row, column) position, counted    *)
(* from 0, so that a crop tells which pixels it kept.                      *)
(***************************************************************************)
LabelledImage(rows, columns) ==
    [r \in 1..rows |-> [c \in 1..columns |-> <<r - 1, c - 1>>]]

CropImages == {LabelledImage(r, c) : r \in 1..MaxSide, c \in 1..MaxSide}

Margins == 0..(MaxSide - 1)

\* image[r0:r1, c0:c1] with numpy's slice bounds on both axes.
Slice2D(image, r0, r1, c0, c1) ==
    LET rows    == Len(image)
        columns == Len(image[1])
        r_start == SliceIndex(r0, rows)
        r_stop  == SliceIndex(r1, rows)
        c_start == SliceIndex(c0, columns)
        c_stop  == SliceIndex(c1, columns)
    IN  [r \in 1..(r_stop - r_start) |->
            [c \in 1..(c_stop - c_start) |-> image[r_start + r][c_start + c]]]

\* image.shape is (rows, columns).
Shape(image) == <<Len(image), Len(image[1])>>

\* Lines 96-97: width, height = image.shape, so width is the number of rows
\* and height the number of columns.
crop_image(image, top_margin, bottom_margin, left_margin, right_margin) ==
    LET width  == Shape(image)[1]
        height == Shape(image)[2]
    IN  Slice2D(image, top_margin, height - bottom_margin,
                left_margin, width - right_margin)

InitCrop ==
    /\ args \in [family : {"crop"}, image : CropImages,
                 top_margin : Margins, bottom_margin : Margins,
                 left_margin : Margins, right_margin : Margins]
    /\ pc = "idle"
    /\ result = NoResult

Call_crop_image ==
    /\ args.family = "crop"
    /\ pc' = "crop_image"
    /\ result' = Returned(crop_image(args.image, args.top_margin, args.bottom_margin,
                                     args.left_margin, args.right_margin))
    /\ args' = InputsAfterCall(args)

NextCrop == Call_crop_image

SpecCrop == InitCrop /\ [][NextCrop]_vars

(***************************************************************************)
(* C3, C4, C5.  get_translation on the edges of the smoothed derivative.   *)
(***************************************************************************)
\* The edges get_translation detects, when the filter accepted the profile.
SmoothedDerivativeExists ==
    /\ args.family = "translation"
    /\ filter_data(Len(args.dy), args.dy, DefaultFilterOrder).status = "ok"

LeadingOfCall == get_leading_edge_positions(args.dy, DefaultTreshold)

TrailingOfCall == get_trailing_edge_positions(args.dy, DefaultTreshold)

\* C3: whenever get_translation returns, the number of translation values
\* is exactly floor(len(leading) / 2) - 1.
C3_CountFormula ==
    (pc = "get_translation" /\ result.status = "ok")
    => Len(result.value.T) = (Len(LeadingOfCall) \div 2) - 1

\* C4: whenever get_translation returns, for every i in [0, n) with
\* n = floor(len(leading) / 2) - 1 the i-th value equals
\* ((leading[2(i+1)] - trailing[2i+1]) - (leading[2i+1] - trailing[2i]))
\* * scale / 2.
C4_TranslationFormula ==
    (pc = "get_translation" /\ result.status = "ok")
    => LET le == LeadingOfCall
           te == TrailingOfCall
           n  == (Len(le) \div 2) - 1
       IN  \A i \in 0..(n - 1) :
               /\ i + 1 <= Len(result.value.T)
               /\ RatEq(result.value.T[i + 1],
                        Rat(((le[2 * (i + 1) + 1] - te[(2 * i + 1) + 1])
                             - (le[(2 * i + 1) + 1] - te[2 * i + 1])) * args.scale[1],
                            args.scale[2] * 2))

C4_Witness ==
    /\ pc = "get_translation"
    /\ result.status = "ok"
    /\ Len(LeadingOfCall) >= 6
    /\ Len(result.value.T) = 2
    /\ result.value.T[2][1] # 0
    /\ result.value.T[1] # result.value.T[2]

\* C5: whenever get_translation was called and the smoothed derivative has
\* fewer than 4 leading edges or fewer than 4 trailing edges, the call
\* raised an error (it returned nothing, in particular no empty list).
C5_FewEdgesRaise ==
    (/\ pc = "get_translation"
     /\ SmoothedDerivativeExists
     /\ (Len(LeadingOfCall) < 4 \/ Len(TrailingOfCall) < 4))
    => Failed(result)

(***************************************************************************)
(* The whole module: any function, on any arguments.                       *)
(***************************************************************************)
Init ==
    \/ InitScale
    \/ InitProfile
    \/ InitDerivative
    \/ InitEdges
    \/ InitTranslation
    \/ InitWidths
    \/ InitCrop

Next ==
    \/ NextScale
    \/ NextProfile
    \/ NextDerivative
    \/ NextEdges
    \/ NextTranslation
    \/ NextWidths
    \/ NextCrop

Spec == Init /\ [][Next]_vars

(***************************************************************************)
(* C1, C2, C8.  get_line_width_data.                                       *)
(***************************************************************************)
\* C1: whenever get_line_width_data was called with a number of leading
\* edges that differs from the number of trailing edges, the call raised an
\* error and returned no widths.
C1_MismatchRaises ==
    (/\ pc = "get_line_width_data"
     /\ Len(args.leading_edges) # Len(args.trailing_edges))
    => Failed(result)

\* C2: whenever get_line_width_data returns for leading and trailing edges
\* of equal number, it returns one width per pair, in input order, and the
\* i-th width is (trailing[i] - leading[i]) * scale.
C2_WidthFormula ==
    (/\ pc = "get_line_width_data"
     /\ Len(args.leading_edges) = Len(args.trailing_edges)
     /\ result.status = "ok")
    => /\ Len(result.value.line_widths) = Len(args.leading_edges)
       /\ \A i \in 1..Len(args.leading_edges) :
              RatEq(result.value.line_widths[i],
                    Rat((args.trailing_edges[i] - args.leading_edges[i])
                            * args.scale[1], args.scale[2]))

\* A single line of 3 pixels at scale 2/3, its window inside the image:
\* the single width 3 * 2/3 = 2.
C2_Witness ==
    /\ pc = "get_line_width_data"
    /\ args.columns = 24
    /\ args.leading_edges = <<10>>
    /\ args.trailing_edges = <<13>>
    /\ args.scale = <<2, 3>>
    /\ result.status = "ok"
    /\ Len(result.value.line_widths) = 1
    /\ RatEq(result.value.line_widths[1], Rat(2, 1))
    /\ result.value.line_stds[1].start = 0
    /\ result.value.line_stds[1].stop = 23

\* The padded window [leading - 10, trailing + 10] of pair k leaves the
\* image columns.
C8_WindowOutside(k) ==
    \/ args.leading_edges[k] < 10
    \/ args.trailing_edges[k] + 10 > args.columns

\* C8: whenever get_line_width_data was called with an edge pair whose padded
\* window is not fully inside the image columns, the call raised an error
\* (no uncertainty was evaluated on a wrapped, clipped or empty slice).
C8_WindowOutsideRaises ==
    (/\ pc = "get_line_width_data"
     /\ \E k \in 1..ZipLen(args.leading_edges, args.trailing_edges) :
            C8_WindowOutside(k))
    => Failed(result)

(***************************************************************************)
(* C6.  A constant row: the claim asks for an error.                       *)
(***************************************************************************)
C6_ConstantRow ==
    /\ RowPosition(args.image, args.row) # 0
    /\ LET r == args.image[RowPosition(args.image, args.row)]
       IN  \A i \in 1..Len(r) : r[i] = r[1]

\* C6: whenever get_intensity_profile was called, with invert_profile True or
\* False, on a row whose samples are all equal, the call raised an error
\* (it returned no profile).
C6_ConstantRowRaises ==
    (pc = "get_intensity_profile" /\ C6_ConstantRow) => Failed(result)

(***************************************************************************)
(* C7.  An empty row range: the claim asks for an error.                   *)
(***************************************************************************)
\* C7: whenever get_mean_intensity_profile was called with
\* ending_row <= starting_row, the call raised an error (it returned no
\* mean over zero rows).
C7_EmptyRangeRaises ==
    (pc = "get_mean_intensity_profile" /\ args.ending_row <= args.starting_row)
    => Failed(result)

(***************************************************************************)
(* C9.  Text that is no integer: get_scale raises, after one OCR read and  *)
(* without a scale value.                                                  *)
(***************************************************************************)
\* An integer text, stated apart from the parser: blanks, an optional
\* minus sign, one or more digits, blanks.
C9_IsIntegerText(s) ==
    \E a \in 0..Len(s), b \in 0..Len(s) :
        /\ a < b
        /\ \A i \in 1..Len(s) : (i <= a \/ i > b) => s[i] = " "
        /\ \/ \A i \in (a + 1)..b : s[i] \in Digits
           \/ /\ a + 1 < b
              /\ s[a + 1] = "-"
              /\ \A i \in (a + 2)..b : s[i] \in Digits

\* C9: whenever get_scale was called on an info bar whose label text is not
\* parseable as an integer, the call raised an error, the OCR reader was
\* read exactly once (no retry) and no scale value was returned.
C9_UnparsableLabelFails ==
    (/\ pc = "get_scale"
     /\ args.ocr_text # <<>>
     /\ ~C9_IsIntegerText(args.ocr_text[1]))
    => (/\ Failed(result)
        /\ result.ocr_reads = 1
        /\ "value" \notin DOMAIN result)

C9_Witness ==
    /\ pc = "get_scale"
    /\ args.ocr_text = << <<"1", "u">> >>
    /\ args.lines = <<0, 9>>
    /\ result.status = "ValueError"
    /\ result.ocr_reads = 1

C11_ScalePositive ==
    (/\ pc = "get_scale"
     /\ result.status = "ok"
     /\ IntValue(args.ocr_text[1]) > 0)
    => RatPositive(result.value.scale)

(***************************************************************************)
(* C13.  The inverted profile is the complement of the plain one.          *)
(***************************************************************************)
C13_NonConstantRow ==
    /\ RowPosition(args.image, args.row) # 0
    /\ LET r == args.image[RowPosition(args.image, args.row)]
       IN  \E i \in 1..Len(r) : r[i] # r[1]

\* C13: whenever get_intensity_profile was called on a non-constant row, it
\* returned a profile as long as the row, and at every column its value and
\* the value get_intensity_profile gives with the opposite invert_profile
\* sum to 1.
C13_InvertIsComplement ==
    (pc = "get_intensity_profile" /\ C13_NonConstantRow)
    => LET r     == args.image[RowPosition(args.image, args.row)]
           other == get_intensity_profile(args.image, args.row,
                                          ~args.invert_profile)
       IN  /\ result.status = "ok"
           /\ other.status = "ok"
           /\ Len(result.value) = Len(r)
           /\ Len(other.value) = Len(r)
           /\ \A i \in 1..Len(r) :
                  RatEq(RatAdd(result.value[i], other.value[i]), Rat(1, 1))

\* The row 0, 1, 2 inverted: 1, 1/2, 0.
C13_Witness ==
    /\ pc = "get_intensity_profile"
    /\ args.invert_profile
    /\ args.image = << <<0, 1, 2>> >>
    /\ args.row = 0
    /\ result.status = "ok"
    /\ RatEq(result.value[1], Rat(1, 1))
    /\ RatEq(result.value[2], Rat(1, 2))
    /\ RatEq(result.value[3], Rat(0, 1))

(***************************************************************************)
(* C12.  The derivative is the forward difference of the scaled profile.   *)
(***************************************************************************)
\* C12: whenever get_intensity_profile_dy was called on a profile p of
\* m >= 1 samples with scale factor k, it returned exactly m - 1 samples, the
\* i-th of which is k * p[i + 1] - k * p[i].
C12_DerivativeFormula ==
    (pc = "get_intensity_profile_dy" /\ Len(args.intensity_profile) >= 1)
    => LET p == args.intensity_profile
           k == args.scale_factor
       IN  /\ result.status = "ok"
           /\ Len(result.value) = Len(p) - 1
           /\ \A i \in 1..(Len(p) - 1) :
                  RatEq(result.value[i],
                        Rat(k * p[i + 1][1] * p[i][2] - k * p[i][1] * p[i + 1][2],
                            p[i][2] * p[i + 1][2]))

\* The profile 0, 1/2, 1, 1/2 with the default factor 5: 5/2, 5/2, -5/2.
C12_Witness ==
    /\ pc = "get_intensity_profile_dy"
    /\ args.intensity_profile = <<Rat(0, 1), Rat(1, 2), Rat(1, 1), Rat(1, 2)>>
    /\ args.scale_factor = 5
    /\ Len(result.value) = 3
    /\ RatEq(result.value[1], Rat(5, 2))
    /\ RatEq(result.value[3], Rat(0 - 5, 2))

(***************************************************************************)
(* C14, C15, C17.  The edge detector.  A peak of d is a run l..r of equal  *)
(* samples, not touching either end of d, with a lower sample on each      *)
(* side; a trough has a higher sample on each side.                        *)
(***************************************************************************)
EdgePeak(d, l, r) ==
    /\ 1 <= l /\ l <= r /\ r <= Len(d) - 2
    /\ \A j \in l..r : X(d, j) = X(d, l)
    /\ X(d, l - 1) < X(d, l)
    /\ X(d, r + 1) < X(d, r)

EdgeTrough(d, l, r) ==
    /\ 1 <= l /\ l <= r /\ r <= Len(d) - 2
    /\ \A j \in l..r : X(d, j) = X(d, l)
    /\ X(d, l - 1) > X(d, l)
    /\ X(d, r + 1) > X(d, r)

\* The runs that count as edges for the function that was called: peaks of
\* height >= t for the leading edges, troughs at or below -t for the
\* trailing ones.
EdgeRun(l, r) ==
    LET d == args.intensity_profile_derivative
        t == args.treshold
    IN  IF pc = "get_leading_edge_positions"
        THEN EdgePeak(d, l, r) /\ X(d, l) >= t
        ELSE EdgeTrough(d, l, r) /\ X(d, l) <= 0 - t

EdgeCallDone ==
    pc \in {"get_leading_edge_positions", "get_trailing_edge_positions"}

EdgeIndices == 0..(Len(args.intensity_profile_derivative) - 1)

\* The returned edges that lie on the run l..r.
EdgesOn(l, r) ==
    {k \in 1..Len(result.value) : l <= result.value[k] /\ result.value[k] <= r}

EdgesAt(t) ==
    IF pc = "get_leading_edge_positions"
    THEN get_leading_edge_positions(args.intensity_profile_derivative, t)
    ELSE get_trailing_edge_positions(args.intensity_profile_derivative, t)

SeqRange(q) == {q[k] : k \in 1..Len(q)}

\* C15: whenever get_leading_edge_positions (get_trailing_edge_positions)
\* was called on d with threshold t1, then for every threshold t2 >= t1 the
\* edges found on d at t2 are a subset of those returned, and not more.
C15_ThresholdMonotone ==
    EdgeCallDone
    => \A t2 \in Thresholds :
           t2 >= args.treshold
           => /\ SeqRange(EdgesAt(t2)) \subseteq SeqRange(result.value)
              /\ Len(EdgesAt(t2)) <= Len(result.value)

\* Troughs of depth 1 and 2: two trailing edges at threshold 1, one at 2.
C15_Witness ==
    /\ pc = "get_trailing_edge_positions"
    /\ args.intensity_profile_derivative = <<0, 0 - 1, 0, 0 - 2, 0>>
    /\ args.treshold = 1
    /\ result.value = <<1, 3>>
    /\ EdgesAt(2) = <<3>>

\* C17: whenever get_leading_edge_positions (get_trailing_edge_positions)
\* was called, every qualifying plateau (two or more equal samples, higher
\* than both neighbours and >= threshold; for the trailing edges on the
\* negated derivative) has exactly one edge, at the first index of the
\* plateau.
C17_PlateauFirstIndex ==
    EdgeCallDone
    => \A l \in EdgeIndices, r \in EdgeIndices :
           (l < r /\ EdgeRun(l, r))
           => {result.value[k] : k \in EdgesOn(l, r)} = {l}

\* C17, amended: every qualifying plateau l..r has exactly one edge, at its
\* middle index floor((l + r) / 2).
C17_PlateauMiddleIndex ==
    EdgeCallDone
    => \A l \in EdgeIndices, r \in EdgeIndices :
           (l < r /\ EdgeRun(l, r))
           => /\ Cardinality(EdgesOn(l, r)) = 1
              /\ {result.value[k] : k \in EdgesOn(l, r)} = {(l + r) \div 2}

\* A plateau of three samples at indices 1..3: the edge is at index 2.
C17_Witness ==
    /\ pc = "get_leading_edge_positions"
    /\ args.intensity_profile_derivative = <<0, 2, 2, 2, 0>>
    /\ args.treshold = 1
    /\ result.value = <<2>>

(***************************************************************************)
(* C19.  The indices line 242 reads from the edge arrays.                  *)
(***************************************************************************)
\* floor(L / 2) - 1, the number of values of i for L leading edges.
C19_Count(L) == (L \div 2) - 1

\* C19: whenever get_translation got as far as the edge arrays (L leading,
\* M trailing edges), every index i*2+1 and (i+1)*2 it uses on the leading
\* array is within 0..L-1; the largest index it reads from the trailing
\* array is 2*(floor(L/2) - 1) - 1, and the call fails with IndexError
\* exactly if there are values of i at all and M does not exceed that index,
\* which never happens when M >= L - 2.
C19_IndicesInRange ==
    (pc = "get_translation" /\ SmoothedDerivativeExists)
    => LET L == Len(LeadingOfCall)
           M == Len(TrailingOfCall)
           largest == 2 * C19_Count(L) - 1
       IN  /\ \A i \in 0..(C19_Count(L) - 1) :
                  /\ i * 2 + 1 \in 0..(L - 1)
                  /\ (i + 1) * 2 \in 0..(L - 1)
                  /\ i * 2 + 1 <= largest
           /\ result.status = "IndexError" <=> (C19_Count(L) >= 1 /\ M <= largest)
           /\ M >= L - 2 => result.status = "ok"

\* Four or more leading edges and too few trailing ones: IndexError.
C19_Witness ==
    /\ pc = "get_translation"
    /\ SmoothedDerivativeExists
    /\ Len(LeadingOfCall) >= 4
    /\ Len(TrailingOfCall) < Len(LeadingOfCall) - 2
    /\ result.status = "IndexError"

(***************************************************************************)
(* C18.  crop_image on images that need not be square.                     *)
(***************************************************************************)
\* Non-negative margins that leave at least one row and one column.
C18_MarginsFit ==
    /\ args.top_margin + args.bottom_margin < Len(args.image)
    /\ args.left_margin + args.right_margin < Len(args.image[1])

\* Rows top .. R - bottom - 1 and columns left .. C - right - 1 of the image.
C18_SubImage ==
    LET R == Len(args.image)
        C == Len(args.image[1])
    IN  [r \in 1..(R - args.top_margin - args.bottom_margin) |->
            [c \in 1..(C - args.left_margin - args.right_margin) |->
                args.image[args.top_margin + r][args.left_margin + c]]]

\* C18: whenever crop_image was called on an image of R rows and C columns
\* with margins such that top + bottom < R and left + right < C, it returns
\* exactly rows top .. R - bottom - 1 and columns left .. C - right - 1.
C18_CropExact ==
    (pc = "crop_image" /\ C18_MarginsFit) => result.value = C18_SubImage

(***************************************************************************)
(* C16.  Frame: the calls leave their arguments alone and depend on        *)
(* nothing but their arguments.                                            *)
(***************************************************************************)
\* What the function called `function` returns or raises on the arguments
\* a, whatever was called before.
C16_ResultOf(function, a) ==
    CASE function = "get_scale" ->
             get_scale(a.ocr_text, a.lines, a.return_all, a.return_pm)
      [] function = "get_intensity_profile" ->
             get_intensity_profile(a.image, a.row, a.invert_profile)
      [] function = "get_mean_intensity_profile" ->
             get_mean_intensity_profile(a.image, a.starting_row, a.ending_row)
      [] function = "get_intensity_profile_dy" ->
             Returned(get_intensity_profile_dy(a.intensity_profile, a.scale_factor))
      [] function = "get_leading_edge_positions" ->
             Returned(get_leading_edge_positions(a.intensity_profile_derivative,
                                                 a.treshold))
      [] function = "get_trailing_edge_positions" ->
             Returned(get_trailing_edge_positions(a.intensity_profile_derivative,
                                                  a.treshold))
      [] function = "get_translation" ->
             get_translation(a.profile_len, a.dy, a.scale)
      [] function = "get_line_width_data" ->
             get_line_width_data(a.rows, a.columns, a.leading_edges,
                                 a.trailing_edges, a.scale)
      [] function = "crop_image" ->
             Returned(crop_image(a.image, a.top_margin, a.bottom_margin,
                                 a.left_margin, a.right_margin))

====
